---- MODULE Spec2Model ----
(***************************************************************************)
(* Model of Auto-blog.py: the watch loop, the readiness detector, the two  *)
(* guard sets (processed_files, MarkdownHandler.processing), the publisher *)
(* post_to_wordpress with its archive move, and the category resolver.     *)
(*                                                                         *)
(* Threads.  main() runs process_existing_files on the main thread and     *)
(* only then starts the observer; the observer thread delivers events one  *)
(* at a time, so Spec has the two threads "main" and "observer".  SpecMT   *)
(* runs post_to_wordpress on two delivery threads at once ("w1", "w2").    *)
(*                                                                         *)
(* The remote API, the file system and the writer of the files are the     *)
(* environment: every outcome they can produce is a nondeterministic       *)
(* choice.  A 201 response is taken to carry a JSON object, as the API     *)
(* contract states.                                                        *)
(***************************************************************************)
EXTENDS Integers, Sequences, FiniteSets, TLC

\* ------------------------------------------------------------------ bounds
MaxSize == 2          \* file sizes observed by stat() range over 0..MaxSize
MaxTime == 2          \* int(time.time()) ranges over 1..MaxTime
MaxPosts == 2         \* the remote side accepts at most this many posts per path
MaxRetriesArg == 3    \* SpecReady draws max_retries from 0..MaxRetriesArg
MaxCategoryId == 2    \* remote category ids range over 1..MaxCategoryId
MaxLines == 4         \* the documents given to parse_frontmatter have 1..MaxLines lines
MaxBody == 5          \* every body of at most MaxBody characters is given to the title step

\* ------------------------------------------------------- program constants
DefaultMaxRetries == 10   \* wait_for_file_ready(filepath, max_retries=10, ...)

Paths == {"a.md", "b.md"}
Threads == {"main", "observer"}
Workers == {"w1", "w2"}
AllThreads == Threads \cup Workers

NoPath == "-"
NoFile == <<"none">>
\* a poll observes a size, or one of two codes that are no size:
Missing == 0 - 1      \* filepath.exists() is False
StatError == 0 - 2    \* exists()/stat() raises OSError or PermissionError
Sizes == 0..MaxSize

VARIABLES
  processed_files,  \* module-level set of completed paths
  processing,       \* MarkdownHandler.processing: paths in flight
  watch,            \* the .md files present in WATCH_FOLDER
  published,        \* PUBLISHED_FOLDER: file name -> content or NoFile
  pc,               \* position of each thread
  path,             \* the path the thread's handler is working on
  kind,             \* what started the handler: "created", "modified", "direct"
  attempt,          \* wait_for_file_ready: loop counter
  last_size,        \* wait_for_file_ready: last_size
  max_retries,      \* wait_for_file_ready: max_retries argument
  ready,            \* wait_for_file_ready: returned value
  observed,         \* history: what each poll of the current call observed
  ready_ok,         \* history: this handler saw wait_for_file_ready return True
  category_id,      \* post_to_wordpress: category_id (0 stands for None)
  cat_named,        \* history: category_name is truthy (`not category_name` fails)
  cat_called,       \* history: get_category_id sent its GET request
  cat_matched,      \* history: the category list held an exact match
  post_data,        \* post_to_wordpress: the body of the create-post request
  log,              \* the last message of the handler now or last run ("-": none)
  existing_files,   \* process_existing_files: files still to iterate
  observer,         \* "new", "running", "stopped"
  sigint,           \* the interrupt signal has been delivered
  killed_at,        \* position of main when KeyboardInterrupt ended the process
  posts,            \* remote side: number of 201 responses given per path
  hist,             \* history: paths handed to post_to_wordpress, events owed
  call              \* the last call of a field resolver: function, argument, result

trackerVars == <<processed_files, processing>>
fsVars == <<watch, published>>
waitVars == <<attempt, last_size, max_retries, ready, observed>>
catVars == <<category_id, cat_named, cat_called, cat_matched>>
mainVars == <<existing_files, observer, sigint, killed_at>>
progVars == <<processed_files, processing, watch, published, pc, path, kind,
              attempt, last_size, max_retries, ready, observed, ready_ok,
              category_id, cat_named, cat_called, cat_matched, post_data, log,
              existing_files, observer, sigint, killed_at, posts>>
vars == <<processed_files, processing, watch, published, pc, path, kind,
          attempt, last_size, max_retries, ready, observed, ready_ok,
          category_id, cat_named, cat_called, cat_matched, post_data, log,
          existing_files, observer, sigint, killed_at, posts, hist, call>>
auxVars == <<hist, call>>

NoReq == [built |-> FALSE, categories |-> <<>>]

\* ------------------------------------------------------ archive directory
\* dest = PUBLISHED_FOLDER / filepath.name
DestName(p) == <<p, 0>>
\* backup_name = f"{dest.stem}_{int(time.time())}{dest.suffix}"
BackupName(p, now) == <<p, now>>
Times == 1..MaxTime
ArchNames == {DestName(p) : p \in Paths} \cup
             {BackupName(p, now) : p \in Paths, now \in Times}
OldContent(n) == <<"old", n>>
NewContent(p) == <<"new", p>>
EmptyArchive == [n \in ArchNames |-> NoFile]
\* every archive directory a previous run can have left behind
Archives == {[n \in ArchNames |-> IF n \in S THEN OldContent(n) ELSE NoFile] :
             S \in SUBSET ArchNames}
Contents(pub) == {pub[n] : n \in ArchNames} \ {NoFile}

\* shutil.move(src, dst) onto an existing dst replaces it
\* lines 318-327: the backup rename and the move of the source file
ArchiveMove(pub, p, now, bk, mv) ==
  LET dest == DestName(p)
      backup_path == BackupName(p, now)
      exists == pub[dest] # NoFile
      backed == [pub EXCEPT ![backup_path] = pub[dest], ![dest] = NoFile]
  IN IF exists /\ bk # "ok" THEN [published |-> pub, moved |-> FALSE]
     ELSE LET pub1 == IF exists THEN backed ELSE pub
          IN IF mv # "ok" THEN [published |-> pub1, moved |-> FALSE]
             ELSE [published |-> [pub1 EXCEPT ![dest] = NewContent(p)],
                   moved |-> TRUE]

\* ----------------------------------------------------------------- history
\* nothing is recorded unless a specification switches the history on
NoHistory == [on |-> FALSE, handed |-> {}, owed |-> {}]
NoCall == [fn |-> "-", arg |-> <<>>, done |-> FALSE, res |-> <<>>]

\* handler.post_to_wordpress(p) is called (lines 149, 170, 358)
Handed(p) == IF hist.on THEN [hist EXCEPT !.handed = @ \cup {p}] ELSE hist
\* the files ps appear in WATCH_FOLDER: the observer owes a created event for
\* each once it has been started (line 477; the snapshot taken at the start
\* holds the files that are there already)
Created(ps) == IF hist.on /\ observer = "running"
               THEN [hist EXCEPT !.owed = @ \cup ps] ELSE hist
\* the files ps disappear: nothing will be reported for them
Deleted(ps) == IF hist.on THEN [hist EXCEPT !.owed = @ \ ps] ELSE hist
\* on_created(event) runs for p (line 137)
Delivered(p) == IF hist.on THEN [hist EXCEPT !.owed = @ \ {p}] ELSE hist

\* ------------------------------------------------------ submission guards
NeverProcessed(p) == FALSE
\* str(filepath) in processed_files   (lines 143, 164, 177)
AlreadyProcessed(p) == p \in processed_files
\* str(filepath) in self.processing   (lines 143, 168, 177)
InProcessing(p) == p \in processing
NoDiscard(p) == processing
\* self.processing.discard(filepath_str)
Discard(p) == processing \ {p}

\* line 177 negated: the path passes the guard of post_to_wordpress
Admissible(p) == ~(AlreadyProcessed(p) \/ InProcessing(p))

AbortPc(t) == IF t = "main" THEN "m_start" ELSE "idle"
\* where post_to_wordpress returns to
ReturnPc(t) == IF t = "main" THEN "m_loop" ELSE "idle"

PtwPcs == {"ptw_check", "ptw_add", "ptw_read", "ptw_resolve", "ptw_category",
           "ptw_render", "ptw_post", "ptw_archive"}
\* positions between the admission (line 181) and the finally (line 348)
InFlightPcs == PtwPcs \ {"ptw_check", "ptw_add"}
\* the order of the steps in the text of post_to_wordpress
StepRank(p) ==
  CASE p = "ptw_check" -> 1 [] p = "ptw_add" -> 2 [] p = "ptw_read" -> 3
    [] p = "ptw_resolve" -> 4 [] p = "ptw_category" -> 5
    [] p = "ptw_render" -> 6 [] p = "ptw_post" -> 7 [] p = "ptw_archive" -> 8
    [] OTHER -> 0

FailureLogs == {"not_found", "no_permission", "read_error", "empty",
                "render_error", "api_timeout", "conn_error", "request_error",
                "post_failed", "unexpected"}

frameVars == <<path, kind, ready_ok>>

\* post_to_wordpress returns: its locals go out of scope (path keeps the
\* path of the event or file the thread handled last)
Return(t) ==
  /\ pc' = [pc EXCEPT ![t] = ReturnPc(t)]
  /\ UNCHANGED path
  /\ kind' = [kind EXCEPT ![t] = "-"]
  /\ ready_ok' = [ready_ok EXCEPT ![t] = FALSE]
  /\ post_data' = [post_data EXCEPT ![t] = NoReq]
  /\ category_id' = [category_id EXCEPT ![t] = 0]
  /\ cat_named' = [cat_named EXCEPT ![t] = FALSE]
  /\ cat_called' = [cat_called EXCEPT ![t] = FALSE]
  /\ cat_matched' = [cat_matched EXCEPT ![t] = FALSE]

\* post_to_wordpress goes on to its next step
Goto(t, next) ==
  /\ pc' = [pc EXCEPT ![t] = next]
  /\ UNCHANGED frameVars

\* ------------------------------------------------------ category resolver
UpperLetters == <<"A", "B", "C", "D", "E", "F", "G", "H", "I", "J", "K", "L",
                  "M", "N", "O", "P", "Q", "R", "S", "T", "U", "V", "W", "X",
                  "Y", "Z">>
LowerLetters == <<"a", "b", "c", "d", "e", "f", "g", "h", "i", "j", "k", "l",
                  "m", "n", "o", "p", "q", "r", "s", "t", "u", "v", "w", "x",
                  "y", "z">>
\* str.lower() on one character
LowerChar(c) ==
  IF \E i \in DOMAIN UpperLetters : UpperLetters[i] = c
    THEN LowerLetters[CHOOSE i \in DOMAIN UpperLetters : UpperLetters[i] = c]
    ELSE c
\* str.lower()
Lower(s) == [i \in DOMAIN s |-> LowerChar(s[i])]

CategoryStrings == {<<"a">>, <<"A">>, <<"a", "b">>, <<"a", "B">>}
\* metadata.get('category'): absent, a string (possibly empty), or a YAML
\* scalar that is not a string (an integer, zero or not)
CategoryNames ==
  {[type |-> "none", val |-> <<>>], [type |-> "int", val |-> <<"0">>],
   [type |-> "int", val |-> <<"7">>], [type |-> "str", val |-> <<>>]} \cup
  {[type |-> "str", val |-> s] : s \in CategoryStrings}
\* Python truthiness of the value: `not category_name`
Falsy(name) == \/ name.type = "none"
               \/ name.type = "str" /\ name.val = <<>>
               \/ name.type = "int" /\ name.val = <<"0">>

CategoryIds == 1..MaxCategoryId
RemoteCategories == [id : CategoryIds, name : {<<"a">>, <<"A", "b">>}]
CategoryLists == {<<>>} \cup {<<c>> : c \in RemoteCategories} \cup
                 {<<c, d>> : c \in RemoteCategories, d \in RemoteCategories}
\* what requests.get(.../categories) can do: raise a RequestException, answer
\* with a status other than 200, answer 200 with a body that is not a list of
\* categories, or answer 200 with a list
CategoryResponses ==
  {[kind |-> "neterr", body |-> <<>>], [kind |-> "status500", body |-> <<>>],
   [kind |-> "garbage", body |-> <<>>]} \cup
  {[kind |-> "ok", body |-> l] : l \in CategoryLists}

\* lines 80-82: the first category whose lower-cased name equals the key
RECURSIVE FirstMatchFrom(_, _, _)
FirstMatchFrom(cats, key, i) ==
  IF i > Len(cats) THEN 0
  ELSE IF Lower(cats[i].name) = key THEN cats[i].id
  ELSE FirstMatchFrom(cats, key, i + 1)

\* lines 67-82, the body of the try block: id is the value returned from
\* inside the try (0 when control falls through), raised tells an exception
LookupCategory(name, resp) ==
  IF resp.kind = "neterr" THEN [id |-> 0, raised |-> TRUE]
  ELSE IF resp.kind = "status500" THEN [id |-> 0, raised |-> FALSE]
  ELSE IF resp.kind = "garbage" THEN [id |-> 0, raised |-> TRUE]
  ELSE IF name.type # "str" THEN [id |-> 0, raised |-> TRUE]
  ELSE [id |-> FirstMatchFrom(resp.body, Lower(name.val), 1), raised |-> FALSE]

GetCategoryIdNoExcept(name, resp) ==
  IF Falsy(name) THEN [id |-> 0, called |-> FALSE, raised |-> FALSE]
  ELSE LET r == LookupCategory(name, resp)
       IN [id |-> r.id, called |-> TRUE, raised |-> r.raised]

\* get_category_id: both except clauses log and fall through to return None
GetCategoryId(name, resp) ==
  IF Falsy(name) THEN [id |-> 0, called |-> FALSE, raised |-> FALSE]
  ELSE LET r == LookupCategory(name, resp)
       IN [id |-> IF r.raised THEN 0 ELSE r.id, called |-> TRUE,
           raised |-> FALSE]

\* the list holds a category whose name equals the given one up to case
ExactMatch(name, resp) ==
  /\ name.type = "str"
  /\ resp.kind = "ok"
  /\ \E i \in DOMAIN resp.body : Lower(resp.body[i].name) = Lower(name.val)

\* ------------------------------------------------------- post_to_wordpress
\* the call: filepath = Path(filepath); filepath_str = str(filepath)
Call(t, p, k, rdy) ==
  /\ pc' = [pc EXCEPT ![t] = "ptw_check"]
  /\ path' = [path EXCEPT ![t] = p]
  /\ kind' = [kind EXCEPT ![t] = k]
  /\ ready_ok' = [ready_ok EXCEPT ![t] = rdy]

\* lines 177-179: the guard of post_to_wordpress
PtwCheck(t) ==
  /\ pc[t] = "ptw_check"
  /\ IF ~Admissible(path[t])
       THEN /\ log' = "duplicate"
            /\ Return(t)
       ELSE /\ Goto(t, "ptw_add")
            /\ UNCHANGED <<log, post_data, catVars>>
  /\ UNCHANGED <<trackerVars, fsVars, waitVars, mainVars, posts>>
  /\ UNCHANGED auxVars

\* lines 181-182
PtwAdd(t) ==
  /\ pc[t] = "ptw_add"
  /\ processing' = processing \cup {path[t]}
  /\ log' = "new_file"
  /\ Goto(t, "ptw_read")
  /\ UNCHANGED <<processed_files, fsVars, waitVars, catVars, mainVars,
                 post_data, posts>>
  /\ UNCHANGED auxVars

\* what open()/read() and content.strip() can give for the file
ReadOutcomes(p) ==
  IF p \in watch THEN {"no_permission", "read_error", "empty", "text"}
  ELSE {"not_found"}

\* lines 185-205: read the file; every failure discards and returns (the
\* finally of line 348 discards again)
PtwRead(t) ==
  /\ pc[t] = "ptw_read"
  /\ \E r \in ReadOutcomes(path[t]) :
       IF r = "text"
         THEN /\ Goto(t, "ptw_resolve")
              /\ UNCHANGED <<processing, log, post_data, catVars>>
         ELSE /\ log' = r
              /\ processing' = Discard(path[t])
              /\ Return(t)
  /\ UNCHANGED <<processed_files, fsVars, waitVars, mainVars, posts>>
  /\ UNCHANGED auxVars

\* ------------------------------------------------------ parse_frontmatter
\* a document is held as content.split('\n'), the list of its lines (the last
\* one is "" when the content ends with a newline); the lines are a frontmatter
\* delimiter, an empty line, a YAML key-value pair, a plain word, a YAML list
\* item, and a pair whose value opens a flow sequence that is never closed
DocLines == {"---", "", "t: T", "word", "- i", "k: ["}
Documents == UNION {[1..n -> DocLines] : n \in 1..MaxLines}

\* the line is matched by `---\s*` up to its newline
IsDelimiter(l) == l = "---"
\* the line and its newline are matched by `\s*`
IsBlank(l) == l = ""
NotBlank(l) == ~IsBlank(l)
Max(S) == CHOOSE x \in S : \A y \in S : y <= x
Min(S) == CHOOSE x \in S : \A y \in S : x <= y

\* where group 1 can start: after `^---\s*\n`, \s* taking whole empty lines
BlockStarts(L) == {i \in 2..Len(L) : \A k \in 2..(i - 1) : IsBlank(L[k])}
\* the lines that `\n---\s*\n` can match after a block starting at line i
Closings(L, i) == {j \in (i + 1)..(Len(L) - 1) : IsDelimiter(L[j])}

\* lines 95-96: re.match(pattern, content, re.DOTALL); the first \s* is greedy
\* (the latest start), group 1 is lazy (the earliest closing delimiter), the
\* second \s* is greedy (the empty lines after the delimiter are skipped)
MatchFrontmatter(L) ==
  LET starts == {i \in BlockStarts(L) : Closings(L, i) # {}}
  IN IF ~IsDelimiter(L[1]) \/ starts = {}
       THEN [found |-> FALSE, block |-> <<>>, body |-> <<>>]
       ELSE LET i == Max(starts)
                j == Min(Closings(L, i))
                b == Max({c \in (j + 1)..Len(L) :
                            \A k \in (j + 1)..(c - 1) : IsBlank(L[k])})
            IN [found |-> TRUE, block |-> SubSeq(L, i, j - 1),
                body |-> SubSeq(L, b, Len(L))]

LineKind(l) == CASE l = "t: T" -> "pair" [] l = "word" -> "scalar"
                 [] l = "- i" -> "item" [] l = "k: [" -> "open"
                 [] OTHER -> "marker"
EmptyDict == [type |-> "dict", items |-> {}]
\* line 99: yaml.safe_load of the block: a dict when every line is a pair, a
\* list when every line is an item, a str when a plain scalar starts the block
\* and no pair follows, None when nothing is left, YAMLError otherwise; a
\* leading `---` is the document start marker
SafeLoad(block) ==
  LET doc == IF block # <<>> /\ IsDelimiter(block[1]) THEN Tail(block)
             ELSE block
      c == SelectSeq(doc, NotBlank)
      kinds == {LineKind(c[k]) : k \in DOMAIN c}
  IN IF c = <<>> THEN [type |-> "none", items |-> {}]
     ELSE IF "open" \in kinds \/ "marker" \in kinds
       THEN [type |-> "error", items |-> {}]
     ELSE IF kinds = {"pair"}
       THEN [type |-> "dict", items |-> {c[k] : k \in DOMAIN c}]
     ELSE IF kinds = {"item"}
       THEN [type |-> "list", items |-> {c[k] : k \in DOMAIN c}]
     ELSE IF LineKind(c[1]) = "scalar" /\ "pair" \notin kinds
       THEN [type |-> "str", items |-> {c[k] : k \in DOMAIN c}]
     ELSE [type |-> "error", items |-> {}]

\* lines 93-105: parse_frontmatter(content); `metadata or {}` replaces None
parse_frontmatter(content) ==
  LET match == MatchFrontmatter(content)
  IN IF match.found
       THEN LET metadata == SafeLoad(match.block)
            IN IF metadata.type = "error"
                 THEN [metadata |-> EmptyDict, body |-> content]
                 ELSE [metadata |-> IF metadata.type = "none" THEN EmptyDict
                                    ELSE metadata,
                       body |-> match.body]
       ELSE [metadata |-> EmptyDict, body |-> content]

\* ----------------------------------------------------------- title field
\* a body is a sequence of characters
BodyChars == {"#", " ", "T", "\n"}
ShortBodies == UNION {[1..n -> BodyChars] : n \in 0..MaxBody}
\* bodies with two lines ending alike, the second one a heading
LongBodies ==
  {<<"T", "#", " ", "T", "\n", "#", " ", "T", "\n">>,
   <<"T", "#", " ", "T", "\n", "T", "\n", "#", " ", "T", "\n">>,
   <<"T", "#", " ", "T", "\n", "T", "\n", "#", " ", "T">>}
Bodies == ShortBodies \cup LongBodies
\* metadata.get('title'): None or a string
Titles == {<<>>, <<"T">>, <<"#", " ", "T">>}
\* filepath.stem of a.md
Stem == <<"a">>

\* body.split('\n')
RECURSIVE SplitLines(_)
SplitLines(str) ==
  LET breaks == {i \in DOMAIN str : str[i] = "\n"}
  IN IF breaks = {} THEN <<str>>
     ELSE <<SubSeq(str, 1, Min(breaks) - 1)>> \o
          SplitLines(SubSeq(str, Min(breaks) + 1, Len(str)))

\* '\n'.join(lines)
RECURSIVE JoinLines(_)
JoinLines(lines) ==
  IF lines = <<>> THEN <<>>
  ELSE IF Len(lines) = 1 THEN lines[1]
  ELSE lines[1] \o <<"\n">> \o JoinLines(Tail(lines))

\* str.startswith(prefix)
StartsWith(str, prefix) ==
  Len(str) >= Len(prefix) /\ SubSeq(str, 1, Len(prefix)) = prefix

\* str.strip()
Strip(str) ==
  LET inked == {i \in DOMAIN str : str[i] \notin {" ", "\n"}}
  IN IF inked = {} THEN <<>> ELSE SubSeq(str, Min(inked), Max(inked))

\* str.replace(old, '', 1): the first occurrence of old is cut out
ReplaceFirst(str, old) ==
  LET found == {i \in 1..(Len(str) - Len(old) + 1) :
                  SubSeq(str, i, i + Len(old) - 1) = old}
  IN IF found = {} THEN str
     ELSE SubSeq(str, 1, Min(found) - 1) \o
          SubSeq(str, Min(found) + Len(old), Len(str))

\* the lines of the body that start with '# ' (line 215)
Headings(lines) == {k \in DOMAIN lines : StartsWith(lines[k], <<"#", " ">>)}

\* lines 210-220: the title of the metadata, else the first heading of the
\* body, which is then replaced out of the body, else the file stem
ResolveTitle(meta_title, body) ==
  IF meta_title # <<>> THEN [title |-> meta_title, body |-> body]
  ELSE LET lines == SplitLines(body)
       IN IF Headings(lines) = {} THEN [title |-> Stem, body |-> body]
          ELSE LET line == lines[Min(Headings(lines))]
                   title == Strip(SubSeq(line, 3, Len(line)))
               IN [title |-> IF title = <<>> THEN Stem ELSE title,
                   body |-> ReplaceFirst(body, Append(line, "\n"))]

\* ---------------------------------------------------------- status field
publish == <<"p", "u", "b", "l", "i", "s", "h">>
draft == <<"d", "r", "a", "f", "t">>
future == <<"f", "u", "t", "u", "r", "e">>
\* line 224: ['publish', 'draft', 'future']
ValidStatuses == {publish, draft, future}

StatusStrings ==
  {publish, draft, future, <<>>,
   <<"P", "u", "b", "l", "i", "s", "h">>, <<"P", "U", "B", "L", "I", "S", "H">>,
   <<"D", "r", "a", "f", "t">>, <<"d", "r", "A", "F", "T">>,
   <<"F", "U", "T", "U", "R", "E">>, <<"f", "u", "t", "u", "r", "E">>,
   <<"p", "e", "n", "d", "i", "n", "g">>, <<"p", "u", "b", "l", "i", "c">>,
   <<" ", "d", "r", "a", "f", "t">>}
\* what the frontmatter can give to metadata['status']: no such key, a string,
\* or a YAML scalar that is no string: null (`status:`), an integer
\* (`status: 1`), a boolean (`status: yes`)
StatusValues ==
  {[type |-> "absent", val |-> <<>>], [type |-> "null", val |-> <<>>],
   [type |-> "int", val |-> <<"1">>], [type |-> "bool", val |-> <<"y">>]} \cup
  {[type |-> "str", val |-> s] : s \in StatusStrings}

\* lines 222-225: metadata.get('status', 'draft').lower(), then the fallback;
\* a value that is no string has no .lower() (AttributeError)
ResolveStatus(v) ==
  LET got == IF v.type = "absent" THEN [type |-> "str", val |-> draft] ELSE v
  IN IF got.type # "str" THEN [raised |-> TRUE, status |-> <<>>]
     ELSE LET status == Lower(got.val)
          IN [raised |-> FALSE,
              status |-> IF status \in ValidStatuses THEN status ELSE draft]

\* ------------------------------------------------------------ date field
\* a date string is held as its fields and the separators between them
Years == {"2026"}
Months == {"01", "12"}
Days == {"15"}
Hours == {"18"}
Minutes == {"00", "30"}
Directives == {"%Y", "%m", "%d", "%H", "%M", "%S"}
\* the field values a directive of strptime accepts
Accepted(directive) ==
  CASE directive = "%Y" -> Years [] directive = "%m" -> Months
    [] directive = "%d" -> Days [] directive = "%H" -> Hours
    [] directive = "%M" -> Minutes [] OTHER -> {"00"}

\* line 233: '%Y-%m-%d %H:%M'
LongFormat == <<"%Y", "-", "%m", "-", "%d", " ", "%H", ":", "%M">>
\* line 237: '%Y-%m-%d'
ShortFormat == <<"%Y", "-", "%m", "-", "%d">>
\* lines 230, 234, 238: '%Y-%m-%dT%H:%M:%S'
IsoFormat == <<"%Y", "-", "%m", "-", "%d", "T", "%H", ":", "%M", ":", "%S">>

\* datetime.strptime(str, format): ok is FALSE for ValueError; a field the
\* format does not name is zero
Strptime(str, format) ==
  LET ok == /\ Len(str) = Len(format)
            /\ \A i \in DOMAIN format :
                 IF format[i] \in Directives
                   THEN str[i] \in Accepted(format[i])
                   ELSE str[i] = format[i]
      at == [d \in Directives |->
               IF ok /\ \E i \in DOMAIN format : format[i] = d
                 THEN str[CHOOSE i \in DOMAIN format : format[i] = d]
                 ELSE "00"]
  IN [ok |-> ok, fields |-> at]

\* datetime.strftime(format)
Strftime(fields, format) ==
  [i \in DOMAIN format |-> IF format[i] \in Directives THEN fields[format[i]]
                          ELSE format[i]]

\* the datetime objects yaml.safe_load can build
Datetimes ==
  {[d \in Directives |-> IF d = "%Y" THEN "2026" ELSE IF d = "%m" THEN m
                         ELSE IF d = "%d" THEN "15" ELSE IF d = "%H" THEN h
                         ELSE "00"] : m \in Months, h \in {"00", "18"}}
NoFields == [d \in Directives |-> "00"]
DateStrings ==
  {<<>>, <<"tomorrow">>,
   <<"2026", "-", "01", "-", "15">>, <<"2026", "-", "13", "-", "15">>,
   <<"2026", "/", "01", "/", "15">>,
   <<"2026", "-", "12", "-", "15", " ", "18", ":", "30">>,
   <<"2026", "-", "01", "-", "15", " ", "25", ":", "00">>,
   <<"2026", "-", "01", "-", "15", "T", "18", ":", "00">>,
   <<"2026", "-", "01", "-", "15", " ", "18", ":", "00", ":", "00">>}
\* what the frontmatter can give to metadata['date']: no such key, null, a
\* datetime (`date: 2026-01-15 18:00:00`), a date (`date: 2026-01-15`), an
\* integer, or a string (a quoted value, or one YAML takes for no timestamp)
DateValues ==
  {[type |-> "absent", str |-> <<>>, fields |-> NoFields],
   [type |-> "null", str |-> <<>>, fields |-> NoFields],
   [type |-> "int", str |-> <<"20260115">>, fields |-> NoFields]} \cup
  {[type |-> "datetime", str |-> <<>>, fields |-> f] : f \in Datetimes} \cup
  {[type |-> "date", str |-> <<>>, fields |-> f] :
     f \in {g \in Datetimes : g["%H"] = "00"}} \cup
  {[type |-> "str", str |-> x, fields |-> NoFields] : x \in DateStrings}

\* Python truthiness of the value: `if post_date`
DateTruthy(v) == v.type \in {"int", "datetime", "date"} \/
                 (v.type = "str" /\ v.str # <<>>)

\* lines 227-242: date_str (<<>> stands for None) and whether line 240 warned
ResolveDate(post_date) ==
  IF ~DateTruthy(post_date) THEN [date_str |-> <<>>, warned |-> FALSE]
  ELSE IF post_date.type = "datetime"
    THEN [date_str |-> Strftime(post_date.fields, IsoFormat), warned |-> FALSE]
  ELSE IF post_date.type = "str"
    THEN LET long == Strptime(post_date.str, LongFormat)
             short == Strptime(post_date.str, ShortFormat)
         IN IF long.ok
              THEN [date_str |-> Strftime(long.fields, IsoFormat),
                    warned |-> FALSE]
            ELSE IF short.ok
              THEN [date_str |-> Strftime(short.fields, IsoFormat),
                    warned |-> FALSE]
            ELSE [date_str |-> <<>>, warned |-> TRUE]
  ELSE [date_str |-> <<>>, warned |-> FALSE]

\* the shapes yaml.safe_load can give to metadata and to metadata['status']
Metadata == [mapping : BOOLEAN, status : StatusValues]
\* lines 208-242 raise when metadata has no .get (the YAML block is a scalar
\* or a list) or when the status value has no .lower()
ResolveRaises(md) == ~md.mapping \/ ResolveStatus(md.status).raised

\* lines 207-242: parse the frontmatter, resolve title, status and date; an
\* exception leaves through the outer except (345) and the finally (348)
PtwResolve(t) ==
  /\ pc[t] = "ptw_resolve"
  /\ \E md \in Metadata :
       IF ResolveRaises(md)
         THEN /\ log' = "unexpected"
              /\ processing' = Discard(path[t])
              /\ Return(t)
         ELSE /\ Goto(t, "ptw_category")
              /\ UNCHANGED <<processing, log, post_data, catVars>>
  /\ UNCHANGED <<processed_files, fsVars, waitVars, mainVars, posts>>
  /\ UNCHANGED auxVars

\* lines 244-248: category_id = get_category_id(category_name); an exception
\* leaving get_category_id would end in the outer except (345)
PtwCategory(t) ==
  /\ pc[t] = "ptw_category"
  /\ \E name \in CategoryNames, resp \in CategoryResponses :
       LET r == GetCategoryId(name, resp)
       IN IF r.raised
            THEN /\ log' = "unexpected"
                 /\ processing' = Discard(path[t])
                 /\ Return(t)
            ELSE /\ category_id' = [category_id EXCEPT ![t] = r.id]
                 /\ cat_named' = [cat_named EXCEPT ![t] = ~Falsy(name)]
                 /\ cat_called' = [cat_called EXCEPT ![t] = r.called]
                 /\ cat_matched' = [cat_matched EXCEPT ![t] =
                                      ExactMatch(name, resp)]
                 /\ log' = IF ~Falsy(name) /\ r.id = 0 THEN "no_category"
                           ELSE log
                 /\ Goto(t, "ptw_render")
                 /\ UNCHANGED <<processing, post_data>>
  /\ UNCHANGED <<processed_files, fsVars, waitVars, mainVars, posts>>
  /\ UNCHANGED auxVars

\* lines 262-272: the request body; categories only `if category_id`
PostData(cid) ==
  [built |-> TRUE, categories |-> IF cid # 0 THEN <<cid>> ELSE <<>>]

\* lines 250-272: markdown.markdown(body, ...) returns or raises; then the
\* request body is built
PtwRender(t) ==
  /\ pc[t] = "ptw_render"
  /\ \E ok \in BOOLEAN :
       IF ok
         THEN /\ post_data' = [post_data EXCEPT ![t] = PostData(category_id[t])]
              /\ Goto(t, "ptw_post")
              /\ UNCHANGED <<processing, log, catVars>>
         ELSE /\ log' = "render_error"
              /\ processing' = Discard(path[t])
              /\ Return(t)
  /\ UNCHANGED <<processed_files, fsVars, waitVars, mainVars, posts>>
  /\ UNCHANGED auxVars

\* what requests.post can do; the remote side creates a post when it answers 201
PostOutcomes(p) ==
  {"api_timeout", "conn_error", "request_error", "post_failed"} \cup
  (IF posts[p] < MaxPosts THEN {"201"} ELSE {})

AnyResponse(r) == r \in {"201", "post_failed"}
\* line 297: response.status_code == 201
IsCreated(r) == r = "201"

\* lines 274-295 and 336-348: send the request; a transport error or a status
\* other than 201 ends the attempt
PtwPost(t) ==
  /\ pc[t] = "ptw_post"
  /\ \E r \in PostOutcomes(path[t]) :
       /\ posts' = IF r = "201" THEN [posts EXCEPT ![path[t]] = @ + 1]
                   ELSE posts
       /\ IF IsCreated(r)
            THEN /\ log' = "success"
                 /\ Goto(t, "ptw_archive")
                 /\ UNCHANGED <<processing, post_data, catVars>>
            ELSE /\ log' = r
                 /\ processing' = Discard(path[t])
                 /\ Return(t)
  /\ UNCHANGED <<processed_files, fsVars, waitVars, mainVars>>
  /\ UNCHANGED auxVars

\* lines 297-335 and 345-348, the 201 branch.  os.makedirs raising OSError
\* enters the except of line 332 before dest is bound, so line 333 raises
\* UnboundLocalError, which the outer except (345) logs: line 335 is skipped.
PtwArchive(t) ==
  /\ pc[t] = "ptw_archive"
  /\ \E mk \in {"ok", "oserror"}, bk \in {"ok", "oserror"},
        mv \in {"ok", "oserror"}, now \in Times :
       /\ mv = "ok" => path[t] \in watch
       /\ IF mk # "ok"
            THEN /\ log' = "unexpected"
                 /\ UNCHANGED <<processed_files, fsVars>>
            ELSE LET r == ArchiveMove(published, path[t], now, bk, mv)
                 IN /\ published' = r.published
                    /\ watch' = IF r.moved THEN watch \ {path[t]} ELSE watch
                    /\ processed_files' = processed_files \cup {path[t]}
                    /\ log' = IF r.moved THEN "moved" ELSE "move_failed"
  /\ processing' = Discard(path[t])
  /\ Return(t)
  /\ UNCHANGED <<waitVars, mainVars, posts>>
  /\ UNCHANGED auxVars

post_to_wordpress(t) ==
  \/ PtwCheck(t)
  \/ PtwAdd(t)
  \/ PtwRead(t)
  \/ PtwResolve(t)
  \/ PtwCategory(t)
  \/ PtwRender(t)
  \/ PtwPost(t)
  \/ PtwArchive(t)

\* ------------------------------------------------------ readiness detector
\* what one poll can see: no file, an OSError from exists()/stat(), or a size
\* (the writer may change the size between any two polls)
Observe(p) == IF p \in watch THEN {StatError} \cup Sizes ELSE {Missing}

SameSize(current_size, last) == current_size = last
\* line 120: current_size == last_size and current_size > 0
StableSize(current_size, last) == current_size = last /\ current_size > 0

\* the call wait_for_file_ready(filepath, max_retries): lines 110-111
WaitCall(t, p, k, m) ==
  /\ pc' = [pc EXCEPT ![t] = "wait"]
  /\ path' = [path EXCEPT ![t] = p]
  /\ kind' = [kind EXCEPT ![t] = k]
  /\ max_retries' = [max_retries EXCEPT ![t] = m]
  /\ UNCHANGED <<attempt, last_size, ready, observed, ready_ok>>

\* lines 113-128: one iteration of the loop; rec tells whether the history of
\* observations is kept
WaitPoll(t, rec) ==
  /\ pc[t] = "wait"
  /\ attempt[t] < max_retries[t]
  /\ attempt' = [attempt EXCEPT ![t] = @ + 1]
  /\ \E o \in Observe(path[t]) :
       /\ observed' = IF rec THEN [observed EXCEPT ![t] = Append(@, o)]
                      ELSE observed
       /\ IF o \in {Missing, StatError}
            THEN UNCHANGED <<last_size, ready, pc>>
            ELSE IF StableSize(o, last_size[t])
                   THEN /\ ready' = [ready EXCEPT ![t] = TRUE]
                        /\ pc' = [pc EXCEPT ![t] = "wait_ret"]
                        /\ UNCHANGED last_size
                   ELSE /\ last_size' = [last_size EXCEPT ![t] = o]
                        /\ UNCHANGED <<ready, pc>>
  /\ UNCHANGED <<trackerVars, fsVars, catVars, mainVars, frameVars,
                 max_retries, post_data, log, posts>>
  /\ UNCHANGED auxVars

\* line 130: the loop is exhausted
WaitTimeout(t) ==
  /\ pc[t] = "wait"
  /\ attempt[t] >= max_retries[t]
  /\ ready' = [ready EXCEPT ![t] = FALSE]
  /\ pc' = [pc EXCEPT ![t] = "wait_ret"]
  /\ UNCHANGED <<trackerVars, fsVars, catVars, mainVars, frameVars, attempt,
                 last_size, max_retries, observed, post_data, log, posts>>
  /\ UNCHANGED auxVars

\* wait_for_file_ready has returned: its locals go out of scope
WaitReturn(t) ==
  /\ attempt' = [attempt EXCEPT ![t] = 0]
  /\ last_size' = [last_size EXCEPT ![t] = 0]
  /\ max_retries' = [max_retries EXCEPT ![t] = DefaultMaxRetries]
  /\ ready' = [ready EXCEPT ![t] = FALSE]
  /\ observed' = [observed EXCEPT ![t] = <<>>]

\* -------------------------------------------------------- event handlers
\* the observer thread takes the next event once its previous handler returned
Delivering(t) == t = "observer" /\ observer = "running" /\ pc[t] = "idle"

\* lines 137-148: on_created up to the call of wait_for_file_ready
on_created(t) ==
  /\ Delivering(t)
  /\ \E p \in Paths :
       IF AlreadyProcessed(p) \/ InProcessing(p)
         THEN /\ log' = "ignored"
              /\ path' = [path EXCEPT ![t] = p]
              /\ UNCHANGED <<pc, waitVars, kind, ready_ok>>
         ELSE /\ WaitCall(t, p, "created", DefaultMaxRetries)
              /\ log' = "-"
  /\ UNCHANGED <<trackerVars, fsVars, catVars, mainVars, post_data, posts>>
  /\ hist' = Delivered(path'[t])
  /\ UNCHANGED call

\* lines 153-169: on_modified up to the call of wait_for_file_ready (the watch
\* is not recursive, so no event carries a path under PUBLISHED_FOLDER)
on_modified(t) ==
  /\ Delivering(t)
  /\ \E p \in Paths :
       IF AlreadyProcessed(p)
         THEN /\ log' = "modify_ignored"
              /\ path' = [path EXCEPT ![t] = p]
              /\ UNCHANGED <<pc, waitVars, kind, ready_ok>>
         ELSE IF ~InProcessing(p)
           THEN /\ WaitCall(t, p, "modified", DefaultMaxRetries)
                /\ log' = "-"
           ELSE /\ log' = "-"
                /\ path' = [path EXCEPT ![t] = p]
                /\ UNCHANGED <<pc, waitVars, kind, ready_ok>>
  /\ UNCHANGED <<trackerVars, fsVars, catVars, mainVars, post_data, posts>>
  /\ UNCHANGED auxVars

\* lines 148-151 and 169-170: what the handler does with the answer
AfterWait(t) ==
  /\ pc[t] = "wait_ret"
  /\ IF ready[t]
       THEN /\ Call(t, path[t], kind[t], TRUE)
            /\ UNCHANGED log
       ELSE /\ pc' = [pc EXCEPT ![t] = "idle"]
            /\ log' = IF kind[t] = "created" THEN "timeout" ELSE log
            /\ UNCHANGED path
            /\ kind' = [kind EXCEPT ![t] = "-"]
            /\ UNCHANGED ready_ok
  /\ WaitReturn(t)
  /\ UNCHANGED <<trackerVars, fsVars, catVars, mainVars, post_data, posts>>
  /\ hist' = IF pc'[t] = "ptw_check" THEN Handed(path'[t]) ELSE hist
  /\ UNCHANGED call

\* ------------------------------------------------------------ main thread
\* line 354: list(Path(WATCH_FOLDER).glob('*.md')), or the except of line 359
ListExisting ==
  /\ pc["main"] = "m_glob"
  /\ \E ok \in BOOLEAN :
       IF ok THEN /\ existing_files' = watch
                  /\ pc' = [pc EXCEPT !["main"] = "m_loop"]
                  /\ UNCHANGED log
             ELSE /\ log' = "listing_error"
                  /\ pc' = [pc EXCEPT !["main"] = "m_start"]
                  /\ UNCHANGED existing_files
  /\ UNCHANGED <<trackerVars, fsVars, waitVars, catVars, observer, sigint,
                 killed_at, frameVars, post_data, posts>>
  /\ UNCHANGED auxVars

\* lines 357-358: handler.post_to_wordpress(str(filepath)) for the next file
process_existing_files ==
  /\ pc["main"] = "m_loop"
  /\ IF existing_files = {}
       THEN /\ pc' = [pc EXCEPT !["main"] = "m_start"]
            /\ path' = [path EXCEPT !["main"] = NoPath]
            /\ UNCHANGED <<existing_files, kind, ready_ok>>
       ELSE \E p \in existing_files :
              /\ existing_files' = existing_files \ {p}
              /\ Call("main", p, "direct", FALSE)
  /\ UNCHANGED <<trackerVars, fsVars, waitVars, catVars, observer, sigint,
                 killed_at, post_data, log, posts>>
  /\ hist' = IF pc'["main"] = "ptw_check" THEN Handed(path'["main"]) ELSE hist
  /\ UNCHANGED call

\* lines 473-477: schedule and start the observer, or the except of line 484
StartObserver ==
  /\ pc["main"] = "m_start"
  /\ \E ok \in BOOLEAN :
       IF ok THEN /\ observer' = "running"
                  /\ pc' = [pc EXCEPT !["main"] = "m_idle"]
                  /\ UNCHANGED log
             ELSE /\ log' = "observer_error"
                  /\ pc' = [pc EXCEPT !["main"] = "m_stop"]
                  /\ UNCHANGED observer
  /\ UNCHANGED <<trackerVars, fsVars, waitVars, catVars, existing_files,
                 sigint, killed_at, frameVars, post_data, posts>>
  /\ UNCHANGED auxVars

\* SIGINT raises KeyboardInterrupt in the main thread wherever it is.  In the
\* loop of lines 479-483 it is caught.  During process_existing_files it is
\* no Exception: it passes the except clauses of lines 345 and 359 (the
\* finally of line 348 runs) and ends the process.
KeyboardInterrupt ==
  /\ ~sigint
  /\ sigint' = TRUE
  /\ pc["main"] \in {"m_glob", "m_loop", "m_start", "m_idle"} \cup PtwPcs
  /\ IF pc["main"] \in {"m_start", "m_idle"}
       THEN /\ pc' = [pc EXCEPT !["main"] = "m_stop"]
            /\ UNCHANGED <<processing, killed_at>>
       ELSE /\ pc' = [pc EXCEPT !["main"] = "m_killed"]
            /\ killed_at' = pc["main"]
            /\ processing' = IF pc["main"] \in InFlightPcs
                             THEN Discard(path["main"]) ELSE processing
  /\ UNCHANGED <<processed_files, fsVars, waitVars, catVars, existing_files,
                 observer, frameVars, post_data, log, posts>>
  /\ UNCHANGED auxVars

\* line 487: observer.stop(): no further event is delivered
StopObserver ==
  /\ pc["main"] = "m_stop"
  /\ observer' = "stopped"
  /\ pc' = [pc EXCEPT !["main"] = "m_join"]
  /\ UNCHANGED <<trackerVars, fsVars, waitVars, catVars, existing_files,
                 sigint, killed_at, frameVars, post_data, log, posts>>
  /\ UNCHANGED auxVars

\* line 488: observer.join() returns once the observer thread has left the
\* handler it was running; then main returns and the process exits
JoinObserver ==
  /\ pc["main"] = "m_join"
  /\ pc["observer"] = "idle"
  /\ pc' = [pc EXCEPT !["main"] = "m_exit"]
  /\ UNCHANGED <<trackerVars, fsVars, waitVars, catVars, mainVars, frameVars,
                 post_data, log, posts>>
  /\ UNCHANGED auxVars

ProcessAlive == pc["main"] \notin {"m_exit", "m_killed"}

\* ------------------------------------------------------------ environment
\* a writer puts a .md file into WATCH_FOLDER
FsCreate ==
  /\ \E p \in Paths \ watch : watch' = watch \cup {p}
  /\ UNCHANGED <<trackerVars, published, waitVars, catVars, mainVars, pc,
                 frameVars, post_data, log, posts>>
  /\ hist' = Created(watch' \ watch)
  /\ UNCHANGED call

\* somebody removes a .md file from WATCH_FOLDER
FsDelete ==
  /\ \E p \in watch : watch' = watch \ {p}
  /\ UNCHANGED <<trackerVars, published, waitVars, catVars, mainVars, pc,
                 frameVars, post_data, log, posts>>
  /\ hist' = Deleted(watch \ watch')
  /\ UNCHANGED call

\* --------------------------------------------------------- specifications
TypeInit ==
  /\ processed_files = {}
  /\ processing = {}
  /\ path = [t \in AllThreads |-> NoPath]
  /\ kind = [t \in AllThreads |-> "-"]
  /\ attempt = [t \in AllThreads |-> 0]
  /\ last_size = [t \in AllThreads |-> 0]
  /\ max_retries = [t \in AllThreads |-> DefaultMaxRetries]
  /\ ready = [t \in AllThreads |-> FALSE]
  /\ observed = [t \in AllThreads |-> <<>>]
  /\ ready_ok = [t \in AllThreads |-> FALSE]
  /\ category_id = [t \in AllThreads |-> 0]
  /\ cat_named = [t \in AllThreads |-> FALSE]
  /\ cat_called = [t \in AllThreads |-> FALSE]
  /\ cat_matched = [t \in AllThreads |-> FALSE]
  /\ post_data = [t \in AllThreads |-> NoReq]
  /\ log = "-"
  /\ existing_files = {}
  /\ observer = "new"
  /\ sigint = FALSE
  /\ killed_at = "-"
  /\ posts = [p \in Paths |-> 0]
  /\ call = NoCall

\* line 468: a fresh handler; validate_config has made both folders, the
\* archive folder is new
Init ==
  /\ TypeInit
  /\ hist = NoHistory
  /\ watch \in SUBSET Paths
  /\ published = EmptyArchive
  /\ pc = [t \in AllThreads |-> IF t = "main" THEN "m_glob"
                                ELSE IF t = "observer" THEN "idle" ELSE "off"]

Next ==
  \/ ListExisting
  \/ process_existing_files
  \/ StartObserver
  \/ KeyboardInterrupt
  \/ StopObserver
  \/ JoinObserver
  \/ ProcessAlive /\ FsCreate
  \/ ProcessAlive /\ FsDelete
  \/ \E t \in Threads :
       \/ on_created(t)
       \/ on_modified(t)
       \/ WaitPoll(t, FALSE)
       \/ WaitTimeout(t)
       \/ AfterWait(t)
       \/ ProcessAlive /\ post_to_wordpress(t)

Spec == Init /\ [][Next]_vars

\* a delivery thread calls post_to_wordpress for a file of the watch folder
Invoke(t) ==
  /\ pc[t] = "idle"
  /\ \E p \in watch : Call(t, p, "direct", FALSE)
  /\ UNCHANGED <<trackerVars, fsVars, waitVars, catVars, mainVars, post_data,
                 log, posts>>
  /\ hist' = IF pc'[t] = "ptw_check" THEN Handed(path'[t]) ELSE hist
  /\ UNCHANGED call

\* two delivery threads and one file: the concurrent calls the tracker's
\* contract speaks of (main() itself starts a single observer thread)
InitMT ==
  /\ TypeInit
  /\ hist = NoHistory
  /\ watch = {"a.md"}
  /\ published = EmptyArchive
  /\ pc = [t \in AllThreads |-> IF t \in Workers THEN "idle" ELSE "off"]

NextMT == \E t \in Workers : Invoke(t) \/ post_to_wordpress(t)

SpecMT == InitMT /\ [][NextMT]_vars

\* wait_for_file_ready called with any max_retries, the history of its polls
\* kept, while files come and go
InitReady ==
  /\ processed_files = {} /\ processing = {}
  /\ watch \in SUBSET Paths
  /\ published = EmptyArchive
  /\ pc = [t \in AllThreads |-> IF t = "observer" THEN "wait" ELSE "off"]
  /\ path \in {[t \in AllThreads |-> IF t = "observer" THEN p ELSE NoPath] :
               p \in Paths}
  /\ kind = [t \in AllThreads |-> IF t = "observer" THEN "created" ELSE "-"]
  /\ attempt = [t \in AllThreads |-> 0]
  /\ last_size = [t \in AllThreads |-> 0]
  /\ max_retries \in {[t \in AllThreads |-> IF t = "observer" THEN m
                                           ELSE DefaultMaxRetries] :
                      m \in 0..MaxRetriesArg}
  /\ ready = [t \in AllThreads |-> FALSE]
  /\ observed = [t \in AllThreads |-> <<>>]
  /\ ready_ok = [t \in AllThreads |-> FALSE]
  /\ category_id = [t \in AllThreads |-> 0]
  /\ cat_named = [t \in AllThreads |-> FALSE]
  /\ cat_called = [t \in AllThreads |-> FALSE]
  /\ cat_matched = [t \in AllThreads |-> FALSE]
  /\ post_data = [t \in AllThreads |-> NoReq]
  /\ log = "-"
  /\ existing_files = {}
  /\ observer = "running"
  /\ sigint = FALSE
  /\ killed_at = "-"
  /\ posts = [p \in Paths |-> 0]
  /\ hist = NoHistory
  /\ call = NoCall

NextReady ==
  \/ WaitPoll("observer", TRUE)
  \/ WaitTimeout("observer")
  \/ FsCreate
  \/ FsDelete

SpecReady == InitReady /\ [][NextReady]_vars

\* the archive move of one published file into any archive directory
InitArchive ==
  /\ processed_files = {}
  /\ watch \in SUBSET Paths
  /\ published \in Archives
  /\ \E p \in Paths :
       /\ processing = {p}
       /\ path = [t \in AllThreads |-> IF t = "observer" THEN p ELSE NoPath]
       /\ posts = [q \in Paths |-> IF q = p THEN 1 ELSE 0]
  /\ pc = [t \in AllThreads |-> IF t = "observer" THEN "ptw_archive"
                                ELSE IF t = "main" THEN "m_idle" ELSE "off"]
  /\ kind = [t \in AllThreads |-> IF t = "observer" THEN "created" ELSE "-"]
  /\ attempt = [t \in AllThreads |-> 0]
  /\ last_size = [t \in AllThreads |-> 0]
  /\ max_retries = [t \in AllThreads |-> DefaultMaxRetries]
  /\ ready = [t \in AllThreads |-> FALSE]
  /\ observed = [t \in AllThreads |-> <<>>]
  /\ ready_ok = [t \in AllThreads |-> t = "observer"]
  /\ category_id = [t \in AllThreads |-> 0]
  /\ cat_named = [t \in AllThreads |-> FALSE]
  /\ cat_called = [t \in AllThreads |-> FALSE]
  /\ cat_matched = [t \in AllThreads |-> FALSE]
  /\ post_data = [t \in AllThreads |-> IF t = "observer" THEN PostData(0)
                                       ELSE NoReq]
  /\ log = "success"
  /\ existing_files = {}
  /\ observer = "running"
  /\ sigint = FALSE
  /\ killed_at = "-"
  /\ hist = NoHistory
  /\ call = NoCall

NextArchive == PtwArchive("observer")

SpecArchive == InitArchive /\ [][NextArchive]_vars

\* main() with the history switched on: which files were handed to
\* post_to_wordpress, and for which files the observer owes a created event
InitWatch ==
  /\ TypeInit
  /\ hist = [on |-> TRUE, handed |-> {}, owed |-> {}]
  /\ watch \in SUBSET Paths
  /\ published = EmptyArchive
  /\ pc = [t \in AllThreads |-> IF t = "main" THEN "m_glob"
                                ELSE IF t = "observer" THEN "idle" ELSE "off"]

\* main() up to its sleep loop and the observer thread, with writers that
\* only add files
NextWatch ==
  \/ ListExisting
  \/ process_existing_files
  \/ StartObserver
  \/ FsCreate
  \/ \E t \in Threads :
       \/ on_created(t)
       \/ on_modified(t)
       \/ WaitPoll(t, FALSE)
       \/ WaitTimeout(t)
       \/ AfterWait(t)
       \/ post_to_wordpress(t)

SpecWatch == InitWatch /\ [][NextWatch]_vars

\* the field resolvers of post_to_wordpress (lines 207-242) applied to every
\* value of their input sets
Pending(fn, args) ==
  {[fn |-> fn, arg |-> a, done |-> FALSE, res |-> <<>>] : a \in args}

InitFields ==
  /\ processed_files = {} /\ processing = {}
  /\ watch = {}
  /\ published = EmptyArchive
  /\ pc = [t \in AllThreads |-> "off"]
  /\ path = [t \in AllThreads |-> NoPath]
  /\ kind = [t \in AllThreads |-> "-"]
  /\ attempt = [t \in AllThreads |-> 0]
  /\ last_size = [t \in AllThreads |-> 0]
  /\ max_retries = [t \in AllThreads |-> DefaultMaxRetries]
  /\ ready = [t \in AllThreads |-> FALSE]
  /\ observed = [t \in AllThreads |-> <<>>]
  /\ ready_ok = [t \in AllThreads |-> FALSE]
  /\ category_id = [t \in AllThreads |-> 0]
  /\ cat_named = [t \in AllThreads |-> FALSE]
  /\ cat_called = [t \in AllThreads |-> FALSE]
  /\ cat_matched = [t \in AllThreads |-> FALSE]
  /\ post_data = [t \in AllThreads |-> NoReq]
  /\ log = "-"
  /\ existing_files = {}
  /\ observer = "new"
  /\ sigint = FALSE
  /\ killed_at = "-"
  /\ posts = [p \in Paths |-> 0]
  /\ hist = NoHistory
  /\ call \in Pending("parse", Documents) \cup
              Pending("title", [title : Titles, body : Bodies]) \cup
              Pending("status", StatusValues) \cup
              Pending("date", DateValues)

\* line 208: metadata, body = parse_frontmatter(content)
ParseFrontmatterCall ==
  /\ call.fn = "parse" /\ ~call.done
  /\ call' = [call EXCEPT !.done = TRUE, !.res = parse_frontmatter(call.arg)]
  /\ UNCHANGED <<progVars, hist>>

\* lines 210-220
ResolveTitleCall ==
  /\ call.fn = "title" /\ ~call.done
  /\ call' = [call EXCEPT !.done = TRUE,
                          !.res = ResolveTitle(call.arg.title, call.arg.body)]
  /\ UNCHANGED <<progVars, hist>>

\* lines 222-225
ResolveStatusCall ==
  /\ call.fn = "status" /\ ~call.done
  /\ call' = [call EXCEPT !.done = TRUE, !.res = ResolveStatus(call.arg)]
  /\ UNCHANGED <<progVars, hist>>

\* lines 227-242
ResolveDateCall ==
  /\ call.fn = "date" /\ ~call.done
  /\ call' = [call EXCEPT !.done = TRUE, !.res = ResolveDate(call.arg)]
  /\ UNCHANGED <<progVars, hist>>

NextFields ==
  \/ ParseFrontmatterCall
  \/ ResolveTitleCall
  \/ ResolveStatusCall
  \/ ResolveDateCall

SpecFields == InitFields /\ [][NextFields]_vars

\* ------------------------------------------------------------------ claims

\* C1: for every path the create-post request is answered 201 at most once
\* in the lifetime of the process.
AtMostOncePublished == \A p \in Paths : posts[p] <= 1

\* C2: at no time are two attempts in flight for one path: of several
\* concurrent invocations for a path exactly one passes the admission.
OneInFlightPerPath ==
  \A t1, t2 \in AllThreads :
    (t1 # t2 /\ pc[t1] \in InFlightPcs /\ pc[t2] \in InFlightPcs)
      => path[t1] # path[t2]

\* C3: an attempt whose create-post call returned 201 ends with its path in
\* processed_files, whatever happens in the archive step.
CompletedAfter201 ==
  [][\A t \in AllThreads :
       (pc[t] = "ptw_archive" /\ pc'[t] = ReturnPc(t))
         => path[t] \in processed_files']_vars

\* C4: processed_files only grows, and no handler gets past its guards for a
\* path in processed_files: it neither polls, reads nor sends for it.
PermanentDedup ==
  [][/\ processed_files \subseteq processed_files'
     /\ \A t \in AllThreads :
          pc'[t] \in {"wait", "wait_ret", "ptw_add"} \cup InFlightPcs
            => path'[t] \notin processed_files']_vars

\* C4 witness: an event for a completed path has been dropped
DroppedCompleted ==
  \E t \in Threads : /\ pc[t] = "idle"
                     /\ log \in {"ignored", "modify_ignored"}
                     /\ path[t] \in processed_files

\* C5: an admitted attempt that ends before a 201 ends in a failure, and then
\* its path is in neither set, so the guard of post_to_wordpress admits it.
RetryAfterFailure ==
  [][\A t \in AllThreads :
       (pc[t] \in InFlightPcs \ {"ptw_archive"} /\ pc'[t] = ReturnPc(t))
         => /\ log' \in FailureLogs
            /\ path[t] \notin processing'
            /\ path[t] \notin processed_files'
            /\ Admissible(path[t])']_vars

\* C5 witness: a failed attempt has ended and left its path admissible
FailedAndAdmissible ==
  \E t \in Threads : /\ pc[t] = "idle"
                     /\ log \in FailureLogs \ {"unexpected"}
                     /\ path[t] \in Paths
                     /\ Admissible(path[t])

\* C6: the archive never loses a document: every content in the archive
\* before a step is there after it, and after a move the new file holds the
\* original name and a file that was there holds a backup name.
ArchiveKeepsEverything ==
  [][/\ Contents(published) \subseteq Contents(published')
     /\ \A t \in AllThreads :
          (pc[t] = "ptw_archive" /\ log' = "moved")
            => /\ published'[DestName(path[t])] = NewContent(path[t])
               /\ published[DestName(path[t])] # NoFile
                    => \E now \in Times :
                         published'[BackupName(path[t], now)] =
                           published[DestName(path[t])]]_vars

\* C7: no file has been read by the publisher without a readiness check that
\* reported ready before it in the same handler.
ReadOnlyAfterReadiness ==
  \A t \in AllThreads : pc[t] = "ptw_resolve" => ready_ok[t]

\* C8: when the process has exited after the interrupt, no attempt was cut
\* between its admission and its end.
GracefulShutdown ==
  ~ProcessAlive => /\ killed_at \notin InFlightPcs
                   /\ \A t \in Threads : pc[t] \notin InFlightPcs

\* poll i saw a size above zero equal to the size seen before it (polls that
\* find no file or fail to stat see no size)
StablePoll(obs, i) ==
  /\ obs[i] > 0
  /\ \E j \in 1..(i - 1) : /\ obs[j] = obs[i]
                          /\ \A k \in (j + 1)..(i - 1) : obs[k] < 0

\* C9: wait_for_file_ready polls at most max_retries times; it reports ready
\* exactly when some poll saw a size above zero equal to the size seen
\* before it, and it reports not ready only after exactly max_retries polls.
ReadyIffStable ==
  \A t \in AllThreads :
    pc[t] = "wait_ret" =>
      /\ Len(observed[t]) <= max_retries[t]
      /\ ready[t] <=> \E i \in 1..Len(observed[t]) : StablePoll(observed[t], i)
      /\ ~ready[t] => Len(observed[t]) = max_retries[t]

\* C9 witness: ready on the third poll, the file missing on the second
ReadyAcrossMissingPoll ==
  \E t \in AllThreads : /\ pc[t] = "wait_ret"
                        /\ ready[t]
                        /\ Len(observed[t]) = 3
                        /\ observed[t][2] = Missing

\* C10: whatever the category lookup does, the attempt goes on to render and
\* build the request; a falsy name makes no remote call; the request has a
\* categories field only when the list held an exact match up to case.
CategoryNeverFatal ==
  [][\A t \in AllThreads :
       /\ (pc[t] = "ptw_category" /\ pc'[t] # "ptw_category" /\ sigint' = sigint)
            => /\ pc'[t] = "ptw_render"
               /\ log' \notin FailureLogs
               /\ ~cat_named'[t] => ~cat_called'[t]
       /\ (pc[t] = "ptw_render" /\ pc'[t] = "ptw_post")
            => /\ post_data'[t].built
               /\ post_data'[t].categories # <<>> => cat_matched[t]]_vars

\* C10 witness: a named category without a match, the request built without
\* a categories field
UncategorizedRequest ==
  \E t \in Threads : /\ pc[t] = "ptw_post"
                     /\ cat_named[t] /\ cat_called[t] /\ ~cat_matched[t]
                     /\ post_data[t].built
                     /\ post_data[t].categories = <<>>

\* C11: every value the frontmatter can give to status (absent, a letter-case
\* variant of publish, draft or future, or anything else) resolves without
\* failing the attempt to one of publish, draft, future: the lower-cased value
\* when it is one of the three, draft otherwise
StatusAlwaysResolved ==
  call.fn = "status" /\ call.done =>
    /\ ~call.res.raised
    /\ call.res.status \in ValidStatuses
    /\ IF call.arg.type = "str" /\ Lower(call.arg.val) \in ValidStatuses
         THEN call.res.status = Lower(call.arg.val)
         ELSE call.res.status = draft

\* C12: parse_frontmatter always returns a key-value mapping, and for an input
\* with no leading frontmatter block, or with a block that is no key-value
\* data, it returns the empty mapping and the whole input as the body
FrontmatterAlwaysMapping ==
  call.fn = "parse" /\ call.done =>
    LET match == MatchFrontmatter(call.arg)
    IN /\ call.res.metadata.type = "dict"
       /\ (~match.found \/
             SafeLoad(match.block).type \in {"error", "str", "list"})
            => call.res.metadata = EmptyDict /\ call.res.body = call.arg

\* the lines without the k-th one
RemoveLine(lines, k) ==
  SubSeq(lines, 1, k - 1) \o SubSeq(lines, k + 1, Len(lines))

\* C13: with no title in the metadata and a line starting with '# ' in the
\* body, the title is the trimmed rest of the first such line (the file stem
\* when nothing is left of it) and the body given to the renderer is the
\* original body without exactly that line, every other line unchanged (when
\* the heading was the last line, the newline before it may stay or go)
HeadingLineRemoved ==
  call.fn = "title" /\ call.done /\ call.arg.title = <<>> =>
    LET lines == SplitLines(call.arg.body)
        k == Min(Headings(lines))
        rest == Strip(SubSeq(lines[k], 3, Len(lines[k])))
        kept == JoinLines(RemoveLine(lines, k))
    IN Headings(lines) # {} =>
         /\ call.res.title = IF rest = <<>> THEN Stem ELSE rest
         /\ \/ call.res.body = kept
            \/ k = Len(lines) /\ k > 1 /\ call.res.body = Append(kept, "\n")

\* C14: within one attempt the steps run in the order of the text, each at
\* most once: the request is sent only after the read, the parse, the field
\* resolution and the render succeeded; the archive move and the insertion
\* into processed_files come only after a 201; a failed step ends the attempt
StepOrder ==
  [][/\ \A t \in Threads :
          /\ pc'[t] \in PtwPcs /\ pc'[t] # pc[t]
               => StepRank(pc'[t]) = StepRank(pc[t]) + 1
          /\ pc'[t] = "ptw_post" /\ pc[t] # "ptw_post"
               => post_data'[t].built /\ log' \notin FailureLogs
          /\ pc'[t] = "ptw_archive" /\ pc[t] # "ptw_archive"
               => posts'[path[t]] = posts[path[t]] + 1
          /\ pc[t] \in InFlightPcs /\ pc'[t] # pc[t] /\ log' \in FailureLogs
               => pc'[t] \notin PtwPcs
     /\ posts' # posts => \E t \in Threads : pc[t] = "ptw_post"
     /\ processed_files' # processed_files \/ published' # published
          => \E t \in Threads : pc[t] = "ptw_archive"]_vars

\* an attempt has gone through every step up to the archive move
RanToArchive ==
  \E t \in Threads : /\ pc[t] = "ptw_archive"
                      /\ post_data[t].built
                      /\ posts[path[t]] > 0
                      /\ path[t] \in processing

\* C15: when wait_for_file_ready reports not ready, in on_created and in
\* on_modified alike, post_to_wordpress is not called (the file is not read)
\* and the timeout warning is logged
TimeoutLogged ==
  [][\A t \in Threads :
       pc[t] = "wait_ret" /\ ~ready[t] /\ pc'[t] # pc[t]
         => pc'[t] = "idle" /\ log' = "timeout"]_vars

\* the string has one of the two accepted forms
AcceptedForm(str) ==
  Strptime(str, LongFormat).ok \/ Strptime(str, ShortFormat).ok
\* the string has the form YYYY-MM-DDTHH:MM:SS
IsoForm(str) ==
  /\ Len(str) = Len(IsoFormat)
  /\ \A i \in DOMAIN IsoFormat :
       IsoFormat[i] \notin Directives => str[i] = IsoFormat[i]

\* C16: the date is left out of the request only when the frontmatter has no
\* date (no key, null or the empty string) or its date is a string in neither
\* accepted form; leaving out a date
\* that is present logs a warning; a native date or datetime and a string in
\* an accepted form always give a date of the form YYYY-MM-DDTHH:MM:SS
DateResolved ==
  call.fn = "date" /\ call.done =>
    LET post_date == call.arg
        present == /\ post_date.type \notin {"absent", "null"}
                   /\ ~(post_date.type = "str" /\ post_date.str = <<>>)
        convertible == \/ post_date.type \in {"date", "datetime"}
                       \/ post_date.type = "str" /\ AcceptedForm(post_date.str)
    IN /\ call.res.date_str = <<>>
            => ~present \/ (post_date.type = "str" /\
                             ~AcceptedForm(post_date.str))
       /\ call.res.date_str = <<>> /\ present => call.res.warned
       /\ convertible => IsoForm(call.res.date_str)

\* C17: a failed step or an unexpected exception inside one attempt returns
\* to the caller: the startup loop keeps the files it still has to handle,
\* the observer keeps delivering, and no other path enters or leaves
\* processing or processed_files
FailureIsolated ==
  [][\A t \in Threads :
       /\ pc[t] \in InFlightPcs /\ pc'[t] # pc[t]
       /\ log' \in FailureLogs /\ sigint' = sigint
       => /\ pc'[t] = IF t = "main" THEN "m_loop" ELSE "idle"
          /\ existing_files' = existing_files
          /\ observer' = observer
          /\ \A q \in Paths \ {path[t]} :
               /\ q \in processing' <=> q \in processing
               /\ q \in processed_files' <=> q \in processed_files]_vars

\* an attempt of the startup loop has failed and the loop has files left
FailedWithFilesLeft ==
  /\ pc["main"] = "m_loop"
  /\ log \in FailureLogs
  /\ existing_files # {}
  /\ path["main"] \notin processing

\* C18: no file is missed: a .md file that is in the watch folder at the
\* start or is put there later, also during process_existing_files, is handed
\* to post_to_wordpress, given that a created event arrives for every file
\* created after observer.start(); so once main sleeps in its loop and the
\* observer is idle, every file of the folder has been handed over or still
\* has its created event to come
NoFileMissed ==
  pc["main"] = "m_idle" /\ observer = "running" /\ pc["observer"] = "idle"
    => \A p \in watch : p \in hist.handed \/ p \in hist.owed

\* C19: no in-flight leak: every admitted attempt takes its path out of
\* processing on every way out, so whenever no call of post_to_wordpress is
\* between its admission and its return, processing is empty
NoInFlightLeak ==
  (\A t \in Threads : pc[t] \notin InFlightPcs) => processing = {}

\* an admitted attempt has ended in a failure and nothing is in flight
EndedAttempt ==
  /\ \A t \in Threads : pc[t] \notin PtwPcs
  /\ log \in FailureLogs \cup {"moved", "move_failed"}
  /\ processing = {}

====
